---- MODULE Spec2Model ----
(***************************************************************************)
(* FlowField (src/src/flow_field.py): the wake superposition engine.       *)
(*                                                                         *)
(* Numbers are fixed point: velocities and turbulence intensities are      *)
(* integers in units of 0.01, so the 0.05 overlap threshold is 5; np.sqrt  *)
(* is the integer square root.  Lengths are integers in units of one       *)
(* rotor-diameter step.  The wind direction is homogeneous (the branch of  *)
(* line 298), 270 or 90 degrees, so that the rotation is exact.            *)
(* calculate_wake is called with points=None.                              *)
(***************************************************************************)
EXTENDS Integers, Sequences, FiniteSets, TLC

\* ------------------------------------------------------------------ bounds
NumTurbines == 3
MaxGridPoints == 2

Turbines == 1..NumTurbines
\* Python's None, for a string and for an object
None == "None"
Unset == [unset |-> TRUE]
\* the engine has no wake_list attribute yet
NoWakeList == <<>>

\* ------------------------------------------------------------ arithmetic
Abs(a) == IF a < 0 THEN -a ELSE a
Max(a, b) == IF a >= b THEN a ELSE b

RECURSIVE IsqrtBetween(_, _, _)
IsqrtBetween(n, lo, hi) ==
    IF hi - lo <= 1 THEN lo
    ELSE LET mid == (lo + hi) \div 2
         IN  IF mid * mid <= n THEN IsqrtBetween(n, mid, hi)
                               ELSE IsqrtBetween(n, lo, mid)

\* np.sqrt on fixed-point values: the largest r with r*r <= n
Isqrt(n) == IF n <= 0 THEN 0 ELSE IsqrtBetween(n, 0, n + 1)

RECURSIVE Pow(_, _)
Pow(b, e) == IF e = 0 THEN 1 ELSE b * Pow(b, e - 1)

\* ------------------------------------------------- the farm (collaborators)
\* Farm layouts: turbine index -> (x, y) in the unrotated frame.
Layouts ==
    { [t \in Turbines |-> <<5 * (t - 1), 0>>],       \* a row aligned with the wind
      [t \in Turbines |-> <<16 * (t - 1), 0>>],      \* aligned, far apart
      [t \in Turbines |-> <<5 * ((t - 1) \div 2), 2 * ((t - 1) % 2)>>], \* pairs abreast
      [t \in Turbines |-> <<5 * (t \div 2), 0>>] }   \* two turbines on the same spot

\* Turbine fleets: rotor_diameter and grid_point_count of every turbine.
Fleets ==
    { [t \in Turbines |-> [rotor_diameter |-> 1, grid_point_count |-> MaxGridPoints]],
      [t \in Turbines |-> [rotor_diameter |-> 2, grid_point_count |-> MaxGridPoints]],
      [t \in Turbines |-> [rotor_diameter |-> 1 + (t % 2),
                           grid_point_count |-> 1 + (t % MaxGridPoints)]] }

\* Yaw settings an optimisation assigns (example_optimization.py, 42-44).
YawSettings ==
    { [t \in Turbines |-> 0],
      [t \in Turbines |-> 2],
      [t \in Turbines |-> 3 * ((t + 1) % 2)] }

\* Wind maps: ambient speed, homogeneous direction, per-turbine ambient TI.
WestWind ==
    [grid_wind_speed |-> 800, wind_direction |-> 270,
     turbine_turbulence_intensity |-> [t \in Turbines |-> 6]]
EastWind ==
    [grid_wind_speed |-> 1000, wind_direction |-> 90,
     turbine_turbulence_intensity |-> [t \in Turbines |-> 6 + 2 * (t % 2)]]
WindMaps == {WestWind, EastWind}

\* Wake model bundles: the descriptors the engine branches on.
JensenWake ==
    [velocity_model |-> [model_string |-> "jensen", model_grid_resolution |-> None],
     turbulence_model |-> [model_string |-> "crespo_hernandez"],
     combination_model |-> "sosfs"]
CurlWake ==
    [velocity_model |-> [model_string |-> "curl", model_grid_resolution |-> "Vec3"],
     turbulence_model |-> [model_string |-> "ishihara_qian"],
     combination_model |-> "fls"]
GaussWake ==
    [velocity_model |-> [model_string |-> "gauss", model_grid_resolution |-> None],
     turbulence_model |-> [model_string |-> "direct"],
     combination_model |-> "fls"]
UnknownWake ==
    [velocity_model |-> [model_string |-> "unknown", model_grid_resolution |-> None],
     turbulence_model |-> [model_string |-> "crespo_hernandez"],
     combination_model |-> "sosfs"]
ValidWakes == {JensenWake, CurlWake, GaussWake}

\* ------------------------------------------------------------------- state
VARIABLES
    coords,                      \* turbine_map.coords (unrotated), fixed
    turbines,                    \* turbine_map.turbines: rotor_diameter, grid_point_count
    yaw_angle,                   \* turbine.yaw_angle
    turbulence_intensity,        \* turbine.turbulence_intensity
    velocities,                  \* turbine.velocities (inflow at the rotor points)
    wind_map, wind_shear, wind_veer,
    reference_wind_height, reference_turbine_diameter,
    wake,
    u_initial, u, v, w,          \* fields over the grid points
    wake_list,                   \* absent until a call tracks upstream wakes
    pc, i,                       \* position in calculate_wake
    no_wake, track_n_upstream_wakes,
    center_of_rotation,          \* locals of calculate_wake: twice the centre,
    rotated_map,                 \*   the turbine coordinates in the wind frame (rx, ry),
    sorted_map, u_wake,          \*   the processing order, the deficit field
    area_overlap,                \* overlap computed per downstream turbine, last iteration
    status,                      \* outcome of the last operation
    last_op,                     \* the operation called last
    after_reset                  \* that operation directly followed reset_uvw()

engine == <<wind_map, wind_shear, wind_veer, reference_wind_height,
            reference_turbine_diameter, wake>>
fields == <<u_initial, u, v, w>>
farm == <<coords, turbines>>
locals == <<i, no_wake, track_n_upstream_wakes, center_of_rotation, rotated_map,
            sorted_map, u_wake, area_overlap>>
vars == <<coords, turbines, yaw_angle, turbulence_intensity, velocities,
          wind_map, wind_shear, wind_veer, reference_wind_height,
          reference_turbine_diameter, wake, u_initial, u, v, w, wake_list,
          pc, i, no_wake, track_n_upstream_wakes, center_of_rotation,
          rotated_map, sorted_map, u_wake, area_overlap, status, last_op,
          after_reset>>

\* ------------------------------------------------------------------- grid
\* The grid: the rotor sample points of every turbine, (turbine, k).
Points == { p \in Turbines \X (1..(MaxGridPoints + 1)) :
              p[2] <= turbines[p[1]].grid_point_count }

\* lateral offset of the k-th sample point from the hub: 0, 1, -1, 2, ...
Offset(k) == IF k % 2 = 0 THEN k \div 2 ELSE -(k \div 2)
\* height of the k-th sample point
PointZ(k) == IF k % 2 = 0 THEN 4 ELSE 2

PointXY(p) == <<coords[p[1]][1], coords[p[1]][2] + Offset(p[2])>>

ZeroField == [p \in Points |-> 0]

\* ------------------------------------------- rotation into the wind frame
SetMin(S) == CHOOSE a \in S : \A b \in S : a <= b
SetMax(S) == CHOOSE a \in S : \A b \in S : a >= b
\* Twice the centre of rotation: min + max of the grid's x and of its y.
grid_center2 ==
    LET xs == { PointXY(p)[1] : p \in Points }
        ys == { PointXY(p)[2] : p \in Points }
    IN  <<SetMin(xs) + SetMax(xs), SetMin(ys) + SetMax(ys)>>

\* A wind direction of 270 needs no rotation; 90 is a half turn about the centre.
Rotate(c, wd, center2) ==
    IF wd = 270 THEN c ELSE <<center2[1] - c[1], center2[2] - c[2]>>

\* turbine_map.rotated(...): the turbine coordinates in the wind frame
rotated(wd, center2) == [t \in Turbines |-> Rotate(coords[t], wd, center2)]
\* _rotated_dir(...): a grid point in the wind frame
rotated_xy(p) == Rotate(PointXY(p), wind_map.wind_direction, center_of_rotation)

\* sorted_in_x_as_list(): stable sort by streamwise coordinate, ties in input order
Before(rot, s, t) == rot[s][1] < rot[t][1] \/ (rot[s][1] = rot[t][1] /\ s < t)
sorted_in_x_as_list(rot) ==
    [r \in 1..NumTurbines |->
        CHOOSE t \in Turbines : Cardinality({ s \in Turbines : Before(rot, s, t) }) = r - 1]

\* -------------------------------------------------- turbine (collaborator)
reset_velocities(t) == [k \in 1..turbines[t].grid_point_count |-> 0]

\* update_velocities: the inflow at the rotor points, ambient minus the wake field
update_velocities(wake_field, t) ==
    [k \in 1..turbines[t].grid_point_count |->
        u_initial[<<t, k>>] - wake_field[<<t, k>>]]

RECURSIVE SumSeq(_, _)
SumSeq(f, n) == IF n = 0 THEN 0 ELSE f[n] + SumSeq(f, n - 1)
average_velocity(vel) == SumSeq(vel, Len(vel)) \div Len(vel)

\* calculate_swept_area_velocities: (freestream, wake) velocities at t's rotor points
swept_freestream(t) ==
    [k \in 1..turbines[t].grid_point_count |-> u_initial[<<t, k>>]]
swept_wake(t, turb_u_wake) ==
    [k \in 1..turbines[t].grid_point_count |->
        u_initial[<<t, k>>] - turb_u_wake[<<t, k>>]]

\* ------------------------------------------------ wake models (collaborator)
\* deflection_function: the lateral shift of the wake centreline, from the yaw
wake_deflection(t) == yaw_angle[t]

InWake(t, p) ==
    /\ rotated_xy(p)[1] > rotated_map[t][1]
    /\ Abs(rotated_xy(p)[2] - (rotated_map[t][2] + wake_deflection(t)))
          <= turbines[t].rotor_diameter

Thrust(model_string) ==
    IF model_string = "curl" THEN 24 ELSE IF model_string = "gauss" THEN 18 ELSE 12

\* velocity_function: the u deficit of turbine t, whose inflow is vel, at every point
velocity_function(t, vel) ==
    [p \in Points |->
        IF InWake(t, p)
        THEN (average_velocity(vel) * Thrust(wake.velocity_model.model_string))
                \div (100 * (1 + rotated_xy(p)[1] - rotated_map[t][1]))
        ELSE 0]

\* the v and w the velocity model returns (curl), or calculate_VW adds (gauss)
secondary_deficit(t, scale) ==
    [p \in Points |->
        IF InWake(t, p) /\ wake.velocity_model.model_string # "jensen"
        THEN scale * yaw_angle[t] ELSE 0]

\* turbulence_function(ambient_TI, coord_ti, turbine_coord, turbine)
turbulence_function(ambient_TI, coord_ti, turbine_coord, t) ==
    LET k == IF wake.turbulence_model.model_string = "ishihara_qian" THEN 18 ELSE 10
    IN  (k + ambient_TI) \div (1 + (coord_ti[1] - turbine_coord[1]) \div 5)

\* combination_function(u_wake, turb_u_wake)
combination_function(field, turb_u_wake) ==
    [p \in Points |->
        IF wake.combination_model = "sosfs"
        THEN Isqrt(field[p] * field[p] + turb_u_wake[p] * turb_u_wake[p])
        ELSE field[p] + turb_u_wake[p]]

\* ------------------------------------------------------- FlowField helpers
\* initialize_velocities: u_initial = grid_wind_speed * (z / reference_wind_height) ** wind_shear
initialize_velocities(wm, height, shear) ==
    [p \in Points |-> wm.grid_wind_speed * Pow(PointZ(p[2]) \div height, shear)]

\* faulty variant: reset_uvw that leaves the array as it is
reset_uvw_skipped(initial, current) == current

\* reset_uvw: what a velocity array holds after it, given its baseline and its value
reset_uvw(initial, current) == initial

\* set_bounds / _compute_initialized_domain reject an unrecognised velocity model
\* and a gridded model without a grid resolution
ConfigurationError(wk, with_resolution) ==
    \/ wk.velocity_model.model_string \notin {"jensen", "curl", "gauss"}
    \/ wk.velocity_model.model_string = "curl" /\ with_resolution = None

\* np.where(np.logical_and(yloc, xloc))[0]: the indices whose rotated coordinates match
coordinate_matches(coord) ==
    { idx \in Turbines : rotated_map[idx][1] = coord[1] /\ rotated_map[idx][2] = coord[2] }

\* faulty variant: a lookup that takes the first of several matching indices
lookup_fails_only_when_empty(matches) == Cardinality(matches) = 0

\* int(...) of that array: defined for an array of exactly one element only
lookup_fails(matches) == Cardinality(matches) # 1
lookup_index(matches) == CHOOSE idx \in matches : TRUE

\* faulty variant: no allow-list: every turbulence model propagates
turbulence_propagates_always(model_string) == TRUE

\* the turbulence models whose wake-added turbulence is propagated
turbulence_propagates(model_string) ==
    "crespo_hernandez" = model_string \/ model_string = "ishihara_qian"

\* faulty variant: the streamwise test admits a turbine at the same streamwise position
in_influence_or_abreast(coord, coord_ti, turbine) ==
    LET downstream_influence_length == 15 * turbines[turbine].rotor_diameter
    IN  /\ coord_ti[1] >= coord[1]
        /\ Abs(coord[2] - coord_ti[2]) < 2 * turbines[turbine].rotor_diameter
        /\ coord_ti[1] <= downstream_influence_length + coord[1]

\* is the turbine at coord_ti inside the influence zone of `turbine` at coord
in_influence(coord, coord_ti, turbine) ==
    LET downstream_influence_length == 15 * turbines[turbine].rotor_diameter
    IN  /\ coord_ti[1] > coord[1]
        /\ Abs(coord[2] - coord_ti[2]) < 2 * turbines[turbine].rotor_diameter
        /\ coord_ti[1] <= downstream_influence_length + coord[1]

\* _calculate_area_overlap: the overlap as the fraction num / den
calculate_area_overlap(wake_velocities, freestream_velocities, turbine) ==
    LET count == Cardinality({ k \in DOMAIN wake_velocities :
                                 freestream_velocities[k] - wake_velocities[k] <= 5 })
    IN  [num |-> turbines[turbine].grid_point_count - count,
         den |-> turbines[turbine].grid_point_count]

\* ti_added = area_overlap * ti_calculation
ti_added(overlap, ti_calculation) == (overlap.num * ti_calculation) \div overlap.den

\* faulty variant: the root-sum-of-squares without the maximum
combined_turbulence_intensity_no_max(added, ambient, current) ==
    Isqrt(added * added + ambient * ambient)

\* faulty variant: the root-sum-of-squares over the current instead of the ambient intensity
combined_turbulence_intensity_current(added, ambient, current) ==
    Max(Isqrt(added * added + current * current), current)

\* np.max((np.sqrt(ti_added ** 2 + ambient ** 2), turbine_ti.turbulence_intensity))
combined_turbulence_intensity(added, ambient, current) ==
    Max(Isqrt(added * added + ambient * ambient), current)

\* The inner loop over sorted_map, from position j on.  st carries the turbine
\* intensities, the wake counts, the overlaps computed, and whether a lookup failed.
RECURSIVE propagate_turbulence(_, _, _, _)
propagate_turbulence(j, turbine, turb_u_wake, st) ==
    IF j > Len(sorted_map) \/ st.failed THEN st
    ELSE
      LET turbine_ti == sorted_map[j]
          coord == rotated_map[turbine]
          coord_ti == rotated_map[turbine_ti]
          matches == coordinate_matches(coord_ti)
      IN
      IF lookup_fails(matches) THEN [st EXCEPT !.failed = TRUE]
      ELSE
        LET idx == lookup_index(matches)
            ambient == wind_map.turbine_turbulence_intensity[idx]
            overlap == calculate_area_overlap(swept_wake(turbine_ti, turb_u_wake),
                                              swept_freestream(turbine_ti), turbine)
            ti_calculation == turbulence_function(ambient, coord_ti, coord, turbine)
            hit == in_influence(coord, coord_ti, turbine) /\ overlap.num > 0
            next ==
              [ti |-> IF hit
                      THEN [st.ti EXCEPT ![turbine_ti] =
                              combined_turbulence_intensity(
                                  ti_added(overlap, ti_calculation), ambient, @)]
                      ELSE st.ti,
               counts |-> IF hit /\ track_n_upstream_wakes
                          THEN [st.counts EXCEPT ![turbine_ti] = @ + 1]
                          ELSE st.counts,
               overlaps |-> IF in_influence(coord, coord_ti, turbine)
                            THEN [st.overlaps EXCEPT ![turbine_ti] = overlap]
                            ELSE st.overlaps,
               failed |-> FALSE]
        IN  propagate_turbulence(j + 1, turbine, turb_u_wake, next)

NoOverlaps == [t \in Turbines |-> Unset]

\* the u field calculate_wake leaves: ambient minus the deficit unless no_wake
final_u(nw, initial, deficit, current) ==
    IF ~nw THEN [p \in Points |-> initial[p] - deficit[p]] ELSE current

\* faulty variant: the combination without the no_wake guard
combined_wake_unguarded(nw, field, turb_u_wake) ==
    combination_function(field, turb_u_wake)

\* the deficit field after a turbine's iteration: combined unless no_wake
combined_wake(nw, field, turb_u_wake) ==
    IF ~nw THEN combination_function(field, turb_u_wake) ELSE field

\* ------------------------------------------------------------------- Init
\* The state __init__ leaves: reinitialize_flow_field has succeeded.
Init ==
    /\ coords \in Layouts
    /\ turbines \in Fleets
    /\ yaw_angle = [t \in Turbines |-> 0]
    /\ wind_map \in WindMaps
    /\ wake \in ValidWakes
    /\ wind_shear = 0 /\ wind_veer = 0
    /\ reference_wind_height = 2 /\ reference_turbine_diameter = 1
    /\ u_initial = initialize_velocities(wind_map, reference_wind_height, wind_shear)
    /\ u = u_initial /\ v = ZeroField /\ w = ZeroField
    /\ turbulence_intensity = wind_map.turbine_turbulence_intensity
    /\ velocities = [t \in Turbines |-> reset_velocities(t)]
    /\ wake_list = NoWakeList
    /\ pc = "idle" /\ i = 0
    /\ no_wake = FALSE /\ track_n_upstream_wakes = FALSE
    /\ center_of_rotation = <<0, 0>> /\ rotated_map = <<>>
    /\ sorted_map = <<>> /\ u_wake = ZeroField
    /\ area_overlap = NoOverlaps
    /\ status = "ok" /\ last_op = "init" /\ after_reset = FALSE

\* ---------------------------------------------------------------- actions
\* FlowField.reset_uvw()
ResetUVW ==
    /\ pc = "idle"
    /\ u' = reset_uvw(u_initial, u)
    /\ v' = reset_uvw(ZeroField, v)
    /\ w' = reset_uvw(ZeroField, w)
    /\ status' = "ok" /\ last_op' = "reset_uvw" /\ after_reset' = FALSE
    /\ UNCHANGED <<farm, engine, u_initial, yaw_angle, turbulence_intensity,
                   velocities, wake_list, pc, locals>>

\* the caller assigns new yaw angles to the turbines between two calls
SetYawAngles ==
    /\ pc = "idle"
    /\ \E yaw \in YawSettings : yaw # yaw_angle /\ yaw_angle' = yaw
    /\ status' = "ok" /\ last_op' = "set_yaw" /\ after_reset' = FALSE
    /\ UNCHANGED <<farm, engine, fields, turbulence_intensity, velocities,
                   wake_list, pc, locals>>

\* Values reinitialize_flow_field is called with; Unset (None) leaves a parameter
\* alone.  One parameter group at a time, or all of them with a wake that is rejected.
Profiles ==
    { [wind_shear |-> 0, wind_veer |-> 0,
       reference_wind_height |-> 2, reference_turbine_diameter |-> 1],
      [wind_shear |-> 1, wind_veer |-> 1,
       reference_wind_height |-> 1, reference_turbine_diameter |-> 2] }
ReinitArgs ==
    { [wind_map |-> m, wake |-> Unset, profile |-> Unset] : m \in WindMaps \cup {Unset} }
    \cup { [wind_map |-> Unset, wake |-> k, profile |-> Unset] :
              k \in ValidWakes \cup {UnknownWake} }
    \cup { [wind_map |-> Unset, wake |-> Unset, profile |-> q] : q \in Profiles }
    \cup { [wind_map |-> m, wake |-> UnknownWake, profile |-> q] :
              m \in WindMaps, q \in Profiles }
\* a call that passes the value a parameter already has is the call without it
Changes(args) ==
    /\ args.wind_map # wind_map
    /\ args.wake # wake
    /\ IF args.profile = Unset THEN TRUE
       ELSE args.profile.wind_shear # wind_shear

\* FlowField.reinitialize_flow_field(...)
ReinitializeFlowField(args) ==
    /\ pc = "idle"
    /\ wind_map' = IF args.wind_map # Unset THEN args.wind_map ELSE wind_map
    /\ wind_shear' = IF args.profile # Unset THEN args.profile.wind_shear ELSE wind_shear
    /\ wind_veer' = IF args.profile # Unset THEN args.profile.wind_veer ELSE wind_veer
    /\ reference_wind_height' =
          IF args.profile # Unset THEN args.profile.reference_wind_height
          ELSE reference_wind_height
    /\ reference_turbine_diameter' =
          IF args.profile # Unset THEN args.profile.reference_turbine_diameter
          ELSE reference_turbine_diameter
    /\ wake' = IF args.wake # Unset THEN args.wake ELSE wake
    /\ last_op' = "reinitialize_flow_field" /\ after_reset' = FALSE
    /\ IF ConfigurationError(wake', wake'.velocity_model.model_grid_resolution)
       THEN \* set_bounds / _compute_initialized_domain raise: nothing after 213 runs
            /\ status' = "config_error"
            /\ UNCHANGED <<fields, turbulence_intensity, velocities>>
       ELSE /\ status' = "ok"
            /\ u_initial' = initialize_velocities(wind_map', reference_wind_height',
                                                  wind_shear')
            /\ u' = u_initial' /\ v' = ZeroField /\ w' = ZeroField
            /\ turbulence_intensity' = wind_map'.turbine_turbulence_intensity
            /\ velocities' = [t \in Turbines |-> reset_velocities(t)]
    /\ UNCHANGED <<farm, yaw_angle, wake_list, pc, locals>>

\* calculate_wake, lines 245-292: reset, refresh the turbines, rotate and sort
CalculateWakeBegin(nw, track) ==
    /\ pc = "idle"
    \* a wake that reinitialization rejected has no model functions to call
    /\ ~ConfigurationError(wake, wake.velocity_model.model_grid_resolution)
    /\ u' = IF wake.velocity_model.model_grid_resolution # None
            THEN reset_uvw(u_initial, u) ELSE u
    /\ v' = ZeroField /\ w' = ZeroField
    /\ wake_list' = IF track THEN [t \in Turbines |-> 0] ELSE wake_list
    /\ turbulence_intensity' = wind_map.turbine_turbulence_intensity
    /\ velocities' = [t \in Turbines |-> reset_velocities(t)]
    /\ center_of_rotation' = grid_center2
    /\ rotated_map' = rotated(wind_map.wind_direction, center_of_rotation')
    /\ sorted_map' = sorted_in_x_as_list(rotated_map')
    /\ u_wake' = ZeroField
    /\ no_wake' = nw /\ track_n_upstream_wakes' = track
    /\ i' = 1 /\ pc' = "loop" /\ area_overlap' = NoOverlaps
    /\ status' = "running" /\ last_op' = "calculate_wake"
    /\ after_reset' = (last_op = "reset_uvw")
    /\ UNCHANGED <<farm, engine, u_initial, yaw_angle>>

\* calculate_wake, lines 294-426: the iteration for the i-th turbine of sorted_map
CalculateWakeTurbine ==
    /\ pc = "loop"
    /\ LET turbine == sorted_map[i]
           matches == coordinate_matches(rotated_map[turbine])
       IN
       IF lookup_fails(matches)
       THEN \* int() of an array that has not exactly one element raises
            /\ pc' = "idle" /\ status' = "lookup_error"
            /\ i' = 0 /\ sorted_map' = <<>> /\ u_wake' = ZeroField
            /\ center_of_rotation' = <<0, 0>> /\ rotated_map' = <<>>
            /\ area_overlap' = NoOverlaps
            /\ UNCHANGED <<farm, engine, fields, yaw_angle, turbulence_intensity,
                           velocities, wake_list, no_wake, track_n_upstream_wakes,
                           last_op, after_reset>>
       ELSE
         LET vel == update_velocities(u_wake, turbine)
             turb_u_wake == velocity_function(turbine, vel)
             turb_v_wake == secondary_deficit(turbine, 4)
             turb_w_wake == secondary_deficit(turbine, 2)
             start == [ti |-> turbulence_intensity, counts |-> wake_list,
                       overlaps |-> NoOverlaps, failed |-> FALSE]
             st == IF turbulence_propagates(wake.turbulence_model.model_string)
                   THEN propagate_turbulence(1, turbine, turb_u_wake, start)
                   ELSE start
         IN
         /\ velocities' = [velocities EXCEPT ![turbine] = vel]
         /\ turbulence_intensity' = st.ti
         /\ wake_list' = st.counts
         /\ IF st.failed
            THEN \* a lookup of the inner loop raised
                 /\ pc' = "idle" /\ status' = "lookup_error"
                 /\ i' = 0 /\ sorted_map' = <<>> /\ u_wake' = ZeroField
                 /\ center_of_rotation' = <<0, 0>> /\ rotated_map' = <<>>
                 /\ area_overlap' = NoOverlaps
                 /\ UNCHANGED <<v, w>>
            ELSE /\ area_overlap' = st.overlaps
                 /\ u_wake' = combined_wake(no_wake, u_wake, turb_u_wake)
                 /\ v' = IF no_wake THEN v
                         ELSE IF wake.velocity_model.model_string = "curl"
                              THEN turb_v_wake
                              ELSE [p \in Points |-> v[p] + turb_v_wake[p]]
                 /\ w' = IF no_wake THEN w
                         ELSE IF wake.velocity_model.model_string = "curl"
                              THEN turb_w_wake
                              ELSE [p \in Points |-> w[p] + turb_w_wake[p]]
                 /\ i' = i + 1
                 /\ pc' = IF i = Len(sorted_map) THEN "finalize" ELSE "loop"
                 /\ UNCHANGED <<sorted_map, center_of_rotation, rotated_map, status>>
         /\ UNCHANGED <<farm, engine, u_initial, u, yaw_angle, no_wake,
                        track_n_upstream_wakes, last_op, after_reset>>

\* calculate_wake, lines 428-438: apply the deficit field and return
CalculateWakeFinish ==
    /\ pc = "finalize"
    /\ u' = final_u(no_wake, u_initial, u_wake, u)
    /\ pc' = "idle" /\ status' = "ok"
    /\ i' = 0 /\ sorted_map' = <<>> /\ u_wake' = ZeroField
    /\ center_of_rotation' = <<0, 0>> /\ rotated_map' = <<>>
    /\ area_overlap' = NoOverlaps
    /\ UNCHANGED <<farm, engine, u_initial, v, w, yaw_angle, turbulence_intensity,
                   velocities, wake_list, no_wake, track_n_upstream_wakes,
                   last_op, after_reset>>

Next ==
    \/ ResetUVW
    \/ SetYawAngles
    \/ \E args \in ReinitArgs : Changes(args) /\ ReinitializeFlowField(args)
    \/ \E nw \in BOOLEAN, track \in BOOLEAN : CalculateWakeBegin(nw, track)
    \/ CalculateWakeTurbine
    \/ CalculateWakeFinish

Spec == Init /\ [][Next]_vars

\* ------------------------------------------------------------- properties
Ambient == wind_map.turbine_turbulence_intensity
InCall == pc \in {"loop", "finalize"}
\* the turbines the loop has processed so far, in order
Processed == { sorted_map[n] : n \in 1..(i - 1) }
\* the deficit field of an already processed turbine, from its stored inflow
DeficitOf(t) == velocity_function(t, velocities[t])
\* two turbines share a position
Coincident == \E s, t \in Turbines : s # t /\ coords[s] = coords[t]

\* C1: a calculate_wake(no_wake=True) issued directly after reset_uvw() leaves u
\* equal to u_initial at every grid point, whatever the configuration and history.
C1_NoWakeAfterResetKeepsAmbient ==
    (last_op = "calculate_wake" /\ after_reset /\ no_wake) => u = u_initial

C1_Witness ==
    /\ pc = "idle" /\ status = "ok" /\ last_op = "calculate_wake"
    /\ after_reset /\ no_wake
    /\ wake.velocity_model.model_grid_resolution = None
    /\ wake_list # NoWakeList /\ ~track_n_upstream_wakes
    /\ u = u_initial

\* C2 (as claimed): no step of calculate_wake ever lowers a turbine's turbulence
\* intensity, during or across calls.
C2_NeverDecreasesAcrossCalls ==
    [][last_op' = "calculate_wake" =>
          \A t \in Turbines : turbulence_intensity'[t] >= turbulence_intensity[t]]_vars

\* C2 (amended): within one calculate_wake call, once the turbines are refreshed
\* to the ambient wind-map value, no iteration lowers a turbine's intensity.
C2_NeverDecreasesWithinCall ==
    [][pc = "loop" =>
          \A t \in Turbines : turbulence_intensity'[t] >= turbulence_intensity[t]]_vars

C2_Witness ==
    /\ pc = "loop" /\ i = NumTurbines
    /\ \E t \in Turbines : turbulence_intensity[t] > Ambient[t]

\* the sample points of t that the last iteration's wake leaves at freestream
FreestreamCount(t) ==
    Cardinality({ k \in 1..turbines[t].grid_point_count :
                    DeficitOf(sorted_map[i - 1])[<<t, k>>] <= 5 })

\* C3: every computed area overlap is in [0, 1]; it is 0 when the wake and the
\* freestream velocities agree at every sample point of the downstream turbine and
\* 1 when they differ by more than 0.05 at every sample point.
C3_OverlapInUnitInterval ==
    InCall =>
      \A t \in Turbines : area_overlap[t] # Unset =>
        /\ 0 <= area_overlap[t].num /\ area_overlap[t].num <= area_overlap[t].den
        /\ (\A k \in 1..turbines[t].grid_point_count :
               DeficitOf(sorted_map[i - 1])[<<t, k>>] = 0) => area_overlap[t].num = 0
        /\ FreestreamCount(t) = 0 => area_overlap[t].num = area_overlap[t].den

\* C4: the second turbine of an aligned pair is updated from the first one's
\* deficit when wakes are on, so its inflow is below ambient (strictly, where the
\* upstream wake is not steered away), and from a zero field under no_wake, so its
\* inflow is exactly ambient.
AlignedPair ==
    /\ InCall /\ i > 2
    /\ rotated_map[sorted_map[2]][1] > rotated_map[sorted_map[1]][1]
    /\ rotated_map[sorted_map[2]][2] = rotated_map[sorted_map[1]][2]
OverlapOn(s, t) ==
    calculate_area_overlap(swept_wake(t, DeficitOf(s)), swept_freestream(t), s)

\* s is another turbine strictly upstream of t, at most 15 of its rotor diameters
\* away streamwise and less than 2 laterally, whose wake overlaps t
Influences(s, t) ==
    /\ s # t
    /\ rotated_map[s][1] < rotated_map[t][1]
    /\ rotated_map[t][1] - rotated_map[s][1] <= 15 * turbines[s].rotor_diameter
    /\ Abs(rotated_map[t][2] - rotated_map[s][2]) < 2 * turbines[s].rotor_diameter
    /\ OverlapOn(s, t).num > 0

\* C5: a call leaves a turbine at its ambient intensity, and its tracked wake
\* count at zero, unless the turbulence model is allow-listed and another turbine
\* upstream within 15 by 2 of its rotor diameters overlaps it; and a call fails
\* only on a coordinate lookup, never because of the turbulence model.
C5_OnlyInfluencedTurbinesChange ==
    /\ InCall =>
         \A t \in Turbines :
           (\/ turbulence_intensity[t] # Ambient[t]
            \/ (track_n_upstream_wakes /\ wake_list[t] # 0))
           => /\ wake.turbulence_model.model_string \in {"crespo_hernandez", "ishihara_qian"}
              /\ \E s \in Processed : Influences(s, t)
    /\ status = "lookup_error" => Coincident

C5_Witness ==
    /\ pc = "finalize" /\ track_n_upstream_wakes
    /\ \E t \in Turbines : wake_list[t] > 0 /\ turbulence_intensity[t] > Ambient[t]
    /\ \E t \in Turbines : wake_list[t] = 0 /\ turbulence_intensity[t] = Ambient[t]
                           /\ \E s \in Turbines : rotated_map[s][1] < rotated_map[t][1]

\* C6: with two turbines on the same rotated coordinates the lookup matches two
\* indices and the call aborts with an error: it never reaches the final step.
C6_AmbiguousLookupAborts ==
    (Coincident /\ last_op = "calculate_wake") =>
        (pc = "loop" \/ (pc = "idle" /\ status = "lookup_error"))

C6_Witness ==
    /\ Coincident /\ last_op = "calculate_wake"
    /\ pc = "idle" /\ status = "lookup_error"
    /\ \E t \in Turbines : velocities[t] # reset_velocities(t)

\* C7: a reinitialize_flow_field that fails with a configuration error leaves
\* the engine's parameters, its wake and its velocity arrays as they were.
C7_FailedReinitKeepsState ==
    [][(last_op' = "reinitialize_flow_field" /\ status' = "config_error")
          => UNCHANGED <<engine, fields>>]_vars

\* the combination of the deficits of the first n turbines of the order
RECURSIVE CombinedDeficit(_)
CombinedDeficit(n) ==
    IF n = 0 THEN ZeroField
    ELSE combination_function(CombinedDeficit(n - 1), DeficitOf(sorted_map[n]))

\* C8: turbines are processed in streamwise order; the field a turbine's inflow
\* is updated from combines the deficits of the turbines processed before it and
\* no others (it is zero under no_wake); and an iteration changes the intensity
\* of turbines strictly downstream of the current one only.
C8_OnlyUpstreamWakesReachATurbine ==
    /\ [](InCall =>
            /\ \A a, b \in 1..NumTurbines :
                  a < b => rotated_map[sorted_map[a]][1] <= rotated_map[sorted_map[b]][1]
            /\ \A n \in 1..NumTurbines :
                  LET t == sorted_map[n]
                      before == IF no_wake THEN ZeroField ELSE CombinedDeficit(n - 1)
                  IN  velocities[t] =
                        IF n < i
                        THEN [k \in 1..turbines[t].grid_point_count |->
                                u_initial[<<t, k>>] - before[<<t, k>>]]
                        ELSE [k \in 1..turbines[t].grid_point_count |-> 0]
            /\ u_wake = IF no_wake THEN ZeroField ELSE CombinedDeficit(i - 1))
    /\ [][pc = "loop" =>
            \A t \in Turbines :
               turbulence_intensity'[t] # turbulence_intensity[t]
                  => rotated_map[t][1] > rotated_map[sorted_map[i]][1]]_vars

C8_Witness ==
    /\ InCall /\ i > 2 /\ ~no_wake
    /\ \E p \in Points : DeficitOf(sorted_map[1])[p] > 0 /\ DeficitOf(sorted_map[2])[p] > 0
    /\ \E t \in Turbines : turbulence_intensity[t] > Ambient[t]

\* the added turbulence of the iteration of turbine s on t, scaled by the overlap
AddedBy(s, t, overlap) ==
    (overlap.num * turbulence_function(Ambient[t], rotated_map[t], rotated_map[s], s))
        \div overlap.den

\* C9 (as claimed): with a positive overlap the new intensity is the larger of the
\* current one and the root-sum-of-squares of the added turbulence and the
\* turbine's intensity at that moment; otherwise it is unchanged.
C9_CombinesWithCurrentIntensity ==
    [][(pc = "loop" /\ pc' # "idle") =>
         \A t \in Turbines :
           LET overlap == area_overlap'[t]
               added == AddedBy(sorted_map[i], t, overlap)
           IN  turbulence_intensity'[t] =
                 IF overlap # Unset /\ overlap.num > 0
                 THEN Max(Isqrt(added * added
                                + turbulence_intensity[t] * turbulence_intensity[t]),
                          turbulence_intensity[t])
                 ELSE turbulence_intensity[t]]_vars

\* C9 (amended): with a positive overlap the new intensity is the larger of the
\* current one and the root-sum-of-squares of the added turbulence and the
\* turbine's AMBIENT wind-map intensity; otherwise it is unchanged.
C9_CombinesWithAmbientIntensity ==
    [][(pc = "loop" /\ pc' # "idle") =>
         \A t \in Turbines :
           LET overlap == area_overlap'[t]
               added == AddedBy(sorted_map[i], t, overlap)
           IN  turbulence_intensity'[t] =
                 IF overlap # Unset /\ overlap.num > 0
                 THEN Max(Isqrt(added * added + Ambient[t] * Ambient[t]),
                          turbulence_intensity[t])
                 ELSE turbulence_intensity[t]]_vars

\* a turbine that already carried added turbulence receives a second contribution
C9_Witness ==
    /\ InCall /\ i > 2
    /\ \E t \in Turbines :
         /\ area_overlap[t] # Unset /\ area_overlap[t].num > 0
         /\ \E s \in Processed \ {sorted_map[i - 1]} : Influences(s, t)
         /\ turbulence_intensity[t] > Ambient[t]

\* C10: the overlap is the fraction of the DOWNSTREAM turbine's sample points in
\* the wake: one minus its freestream points over its own grid_point_count.
C10_OverlapIsDownstreamFraction ==
    InCall =>
      \A t \in Turbines : area_overlap[t] # Unset =>
        area_overlap[t].num * turbines[t].grid_point_count
          = (turbines[t].grid_point_count - FreestreamCount(t)) * area_overlap[t].den

\* the v (scale 4) or w (scale 2) field one call accumulates over the first n
\* turbines of the order: the last turbine's for curl, the sum otherwise
RECURSIVE SecondaryOfCall(_, _)
SecondaryOfCall(n, scale) ==
    IF n = 0 THEN ZeroField
    ELSE IF wake.velocity_model.model_string = "curl"
         THEN secondary_deficit(sorted_map[n], scale)
         ELSE [p \in Points |->
                 SecondaryOfCall(n - 1, scale)[p] + secondary_deficit(sorted_map[n], scale)[p]]

\* C11: the u, v and w a call returns depend on that call alone: with wakes on,
\* u is u_initial minus the deficit accumulated during the call and v, w are what
\* the call accumulated; under no_wake u is u_initial and v, w are zero; with or
\* without a declared grid resolution, whatever earlier calls left behind.
C11_FieldsDependOnLastCallOnly ==
    [][pc = "finalize" =>
         /\ u' = IF no_wake THEN u_initial
                 ELSE [p \in Points |-> u_initial[p] - CombinedDeficit(NumTurbines)[p]]
         /\ v' = IF no_wake THEN ZeroField ELSE SecondaryOfCall(NumTurbines, 4)
         /\ w' = IF no_wake THEN ZeroField ELSE SecondaryOfCall(NumTurbines, 2)]_vars

\* the counts a tracked call ends with: the turbines found to influence each one,
\* the search being made for the allow-listed turbulence models only
UpstreamWakeCount ==
    [t \in Turbines |->
       IF turbulence_propagates(wake.turbulence_model.model_string)
       THEN Cardinality({ s \in Turbines : Influences(s, t) })
       ELSE 0]

\* C12: a call that requests tracking starts wake_list afresh with every turbine
\* at zero and ends with the number of upstream turbines found to influence each
\* turbine in that call; the counts of an earlier call are not readable after a
\* later call that does not track, nor after a reinitialization.
C12_WakeListIsPerCall ==
    /\ (pc = "loop" /\ i = 1 /\ track_n_upstream_wakes)
          => wake_list = [t \in Turbines |-> 0]
    /\ (pc = "finalize" /\ track_n_upstream_wakes) => wake_list = UpstreamWakeCount
    /\ (last_op = "calculate_wake" /\ ~track_n_upstream_wakes) => wake_list = NoWakeList
    /\ last_op = "reinitialize_flow_field" => wake_list = NoWakeList
====
